---- MODULE Spec2Model ----
(***************************************************************************)
(* Model of the transformation job runner (job.runner.py), the parser      *)
(* contract (parsers/base_parser.py), the builtin parsers and the          *)
(* artifact locator / remote code loader (utils/file_manager.py).          *)
(*                                                                         *)
(* Python values are modelled as follows.                                  *)
(*   - a str that the code takes apart (a class name, a module name) is a  *)
(*     sequence of one-character strings;                                  *)
(*   - a storage reference is a record [type, val]: type is the Python     *)
(*     type of the JSON value, val the string as a sequence of tokens of   *)
(*     which "s3://" is one;                                               *)
(*   - a dict is a record carrying the set of its keys ("keys");           *)
(*   - a raised exception is the name of its class in a field "exc",       *)
(*     "None" when nothing was raised.                                     *)
(***************************************************************************)
EXTENDS Integers, Sequences, FiniteSets, TLC

\* ------------------------------------------------------------------ bounds

\* Largest number of entries of job["transformations"] that is explored.
MaxJob == 2
\* Longest class name, over Alphabet, given to camel_to_snake.
MaxLen == 5

\* ------------------------------------------------------------- characters

Uppers == <<"A","B","C","D","E","F","G","H","I","J","K","L","M",
            "N","O","P","Q","R","S","T","U","V","W","X","Y","Z">>
Lowers == <<"a","b","c","d","e","f","g","h","i","j","k","l","m",
            "n","o","p","q","r","s","t","u","v","w","x","y","z">>
Digits == {"0","1","2","3","4","5","6","7","8","9"}

\* [A-Z]
IsUpper(c) == \E k \in DOMAIN Uppers : Uppers[k] = c
\* [a-z]
IsLower(c) == \E k \in DOMAIN Lowers : Lowers[k] = c
\* [0-9]
IsDigit(c) == c \in Digits
\* str.lower() on one character
ToLower(c) ==
    IF IsUpper(c) THEN Lowers[CHOOSE k \in DOMAIN Uppers : Uppers[k] = c] ELSE c

\* ---------------------------------------------------------- camel_to_snake

\* End of the greedy run [a-z]+ that starts at position j of s.
RECURSIVE LowerRunEnd(_, _)
LowerRunEnd(s, j) ==
    IF j + 1 <= Len(s) /\ IsLower(s[j + 1]) THEN LowerRunEnd(s, j + 1) ELSE j

\* re.sub(r'(.)([A-Z][a-z]+)', r'\1_\2', s), scanning from position j:
\* non-overlapping matches, leftmost first.
RECURSIVE SubWord(_, _)
SubWord(s, j) ==
    IF j > Len(s) THEN <<>>
    ELSE IF /\ j + 2 <= Len(s)
            /\ IsUpper(s[j + 1])
            /\ IsLower(s[j + 2])
         THEN LET e == LowerRunEnd(s, j + 2)
              IN  <<s[j], "_">> \o SubSeq(s, j + 1, e) \o SubWord(s, e + 1)
         ELSE <<s[j]>> \o SubWord(s, j + 1)

\* re.sub(r'([a-z0-9])([A-Z])', r'\1_\2', s), scanning from position j.
RECURSIVE SubBoundary(_, _)
SubBoundary(s, j) ==
    IF j > Len(s) THEN <<>>
    ELSE IF /\ j + 1 <= Len(s)
            /\ (IsLower(s[j]) \/ IsDigit(s[j]))
            /\ IsUpper(s[j + 1])
         THEN <<s[j], "_", s[j + 1]>> \o SubBoundary(s, j + 2)
         ELSE <<s[j]>> \o SubBoundary(s, j + 1)

\* str.lower()
Lower(s) == [k \in DOMAIN s |-> ToLower(s[k])]

\* A conversion that forgets the final .lower().
CamelToSnakeNoLower(name) == SubBoundary(SubWord(name, 1), 1)

\* A conversion with the second substitution only: no handling of a run of
\* capitals.
CamelToSnakeBoundaryOnly(name) == Lower(SubBoundary(name, 1))

camel_to_snake(name) == Lower(SubBoundary(SubWord(name, 1), 1))

\* ------------------------------------------------------------ class names

XmlToCsvParser == <<"X","m","l","T","o","C","s","v","P","a","r","s","e","r">>
BaseParser     == <<"B","a","s","e","P","a","r","s","e","r">>
ZipFileParser  == <<"Z","i","p","F","i","l","e","P","a","r","s","e","r">>
\* A class name nothing defines, locally or remotely.
NoSuchParser   == <<"N","o","S","u","c","h","P","a","r","s","e","r">>
\* A class name whose module exists (it converts to xml_to_csv_parser) while
\* the module defines no class of that name.
XmlToCSVParser == <<"X","m","l","T","o","C","S","V","P","a","r","s","e","r">>

\* A class name with a run of capitals, a word, and a capital and a digit
\* after a lowercase letter; no module of the package is named after it.
HTMLParserV2   == <<"H","T","M","L","P","a","r","s","e","r","V","2">>

html_parser_v2    == <<"h","t","m","l","_","p","a","r","s","e","r","_","v","2">>
xml_to_csv_parser == <<"x","m","l","_","t","o","_","c","s","v","_",
                       "p","a","r","s","e","r">>
base_parser       == <<"b","a","s","e","_","p","a","r","s","e","r">>
zip_file_parser   == <<"z","i","p","_","f","i","l","e","_",
                       "p","a","r","s","e","r">>

\* ------------------------------------------------------------ python values

\* A log call: log(message, error).  The message is its template.
LogEntry(message, isError) == [msg |-> message, error |-> isError]

\* One observable step of a transformation: a file fetched, a registry
\* consulted, a class instantiated, a dispatch path taken, a member invoked.
Ev(kind) ==
    [ev |-> kind, name |-> "", mod |-> <<>>, cls |-> <<>>,
     source |-> <<>>, out |-> <<>>, opts |-> {}]

\* The shape of a class object: the callable attributes its instances have,
\* what get_available_operations() returns, whether it can be instantiated,
\* and the member process() delegates to ("" when it does the work itself).
NoClass ==
    [name |-> <<>>, members |-> {}, data |-> {}, ops |-> {},
     abstract |-> FALSE, ctorRaises |-> FALSE, delegate |-> "",
     catches |-> FALSE]

\* Attributes every BaseParser subclass inherits.
BaseMembers == {"process", "get_available_operations", "run_operation"}
BaseData    == {"source_file", "output_directory"}

BaseParserClass ==
    [name |-> BaseParser, members |-> BaseMembers, data |-> BaseData,
     ops |-> {"process"}, abstract |-> TRUE, ctorRaises |-> FALSE,
     delegate |-> "", catches |-> FALSE]

XmlToCsvParserClass ==
    [name |-> XmlToCsvParser, members |-> BaseMembers \cup {"xml_to_csv"},
     data |-> BaseData, ops |-> {"xml_to_csv"}, abstract |-> FALSE,
     ctorRaises |-> FALSE, delegate |-> "xml_to_csv", catches |-> TRUE]

ZipFileParserClass ==
    [name |-> ZipFileParser, members |-> BaseMembers \cup {"unzip"},
     data |-> BaseData, ops |-> {"unzip"}, abstract |-> FALSE,
     ctorRaises |-> FALSE, delegate |-> "unzip", catches |-> TRUE]

\* The package "parsers": module name -> the classes in the module's
\* namespace (each builtin module also imports BaseParser).
LocalRegistry ==
    [m \in {base_parser, xml_to_csv_parser, zip_file_parser} |->
        IF m = base_parser THEN {BaseParserClass}
        ELSE IF m = xml_to_csv_parser THEN {XmlToCsvParserClass, BaseParserClass}
        ELSE {ZipFileParserClass, BaseParserClass}]

\* What the remote store holds for a class name, by the kind of the store:
\*   "contract"      a BaseParser subclass declaring the operation xml_to_csv
\*   "legacy_member" an old-style class (no run_operation) with process and
\*                   xml_to_csv
\*   "legacy_plain"  an old-style class with process only
\*   "ctor_raises"   a BaseParser subclass whose constructor raises
RemoteFound == {"contract", "legacy_member", "legacy_plain", "ctor_raises"}
\* Ways remote resolution fails once the options name bucket and path.
RemoteFailing == {"nocreds", "notfound", "transport", "loaderror", "noclass"}

RemoteClass(kind, class_name) ==
    IF kind \in {"contract", "ctor_raises"}
    THEN [name |-> class_name, members |-> BaseMembers \cup {"xml_to_csv"},
          data |-> BaseData, ops |-> {"xml_to_csv"}, abstract |-> FALSE,
          ctorRaises |-> (kind = "ctor_raises"), delegate |-> "xml_to_csv",
          catches |-> FALSE]
    ELSE [name |-> class_name,
          members |-> IF kind = "legacy_member" THEN {"process", "xml_to_csv"}
                      ELSE {"process"},
          data |-> {}, ops |-> {}, abstract |-> FALSE, ctorRaises |-> FALSE,
          delegate |-> "", catches |-> FALSE]

\* The value of the variable "parser" in execute_transformation.
PyNone  == [kind |-> "None", cls |-> NoClass, source_file |-> <<>>,
            output_directory |-> <<>>, options |-> {}]
PyFalse == [kind |-> "False", cls |-> NoClass, source_file |-> <<>>,
            output_directory |-> <<>>, options |-> {}]
Instance(c, src, out, opts) ==
    [kind |-> "instance", cls |-> c, source_file |-> src,
     output_directory |-> out, options |-> opts]

\* Attributes of the bool False that matter to hasattr/getattr: methods
\* (they take no keyword arguments) and data attributes (ints).
BoolMethods == {"bit_length", "conjugate"}
BoolData    == {"real", "imag"}

\* hasattr(parser, name)
HasAttr(parser, name) ==
    IF parser.kind = "instance"
    THEN name \in parser.cls.members \cup parser.cls.data
    ELSE IF parser.kind = "False" THEN name \in BoolMethods \cup BoolData
    ELSE FALSE

\* ------------------------------------------------- utils/file_manager.py

\* s3_path.replace("s3://", "s3/"); a value that is no str has no replace.
s3_to_local(s3_path) ==
    IF s3_path.type # "str"
    THEN [exc |-> "AttributeError", val |-> <<>>]
    ELSE [exc |-> "None",
          val |-> [k \in DOMAIN s3_path.val |->
                      IF s3_path.val[k] = "s3://" THEN "s3/" ELSE s3_path.val[k]]]

\* The remote store as one resolution sees it: its kind (RemoteFound or
\* RemoteFailing) and the objects under the scripts path of the bucket.
Store(kind, variant_file) ==
    [kind |-> kind,
     objects |-> IF kind = "notfound" THEN {base_parser} \ {variant_file}
                 ELSE {base_parser, variant_file}]

\* download_from_s3: every failure (KeyError on the options, missing
\* credentials, ClientError, anything else) is re-raised as Exception.
download_from_s3(parser_file_name, kwargs, store) ==
    IF "scripts_bucket" \notin kwargs \/ "scripts_path" \notin kwargs
    THEN [exc |-> "Exception", path |-> <<>>, events |-> <<>>]
    ELSE IF store.kind = "nocreds" \/ store.kind = "transport"
         \/ parser_file_name \notin store.objects
    THEN [exc |-> "Exception", path |-> <<>>,
          events |-> <<[Ev("download_failed") EXCEPT !.mod = parser_file_name]>>]
    ELSE [exc |-> "None", path |-> <<"s3_download_">> \o parser_file_name,
          events |-> <<[Ev("download") EXCEPT !.mod = parser_file_name]>>]

\* Lines 62-77 of load_parser_from_s3, given the two downloads d1 and d2:
\* the class, or None (found = FALSE) on any failure.
LoadModule(parser_file_name, class_name, store, d1, d2) ==
    IF d1.exc # "None" \/ d2.exc # "None" \/ store.kind = "loaderror"
    THEN [found |-> FALSE, cls |-> NoClass,
          events |-> (IF d1.exc # "None" THEN d1.events
                      ELSE d1.events \o d2.events) \o
                     <<[Ev("remote_failed") EXCEPT
                          !.mod = parser_file_name, !.cls = class_name]>>,
          logs |-> <<LogEntry("Could not load parser from S3", FALSE)>>]
    ELSE IF store.kind = "noclass"
    THEN [found |-> FALSE, cls |-> NoClass,
          events |-> d1.events \o d2.events \o
                     <<[Ev("remote_failed") EXCEPT
                          !.mod = parser_file_name, !.cls = class_name]>>,
          logs |-> <<LogEntry("Parser not found in scripts_path", FALSE)>>]
    ELSE [found |-> TRUE, cls |-> RemoteClass(store.kind, class_name),
          events |-> d1.events \o d2.events \o
                     <<[Ev("remote_found") EXCEPT
                          !.mod = parser_file_name, !.cls = class_name]>>,
          logs |-> <<LogEntry("S3 parser loaded", FALSE)>>]

load_parser_from_s3(parser_file_name, class_name, kwargs, store) ==
    LoadModule(parser_file_name, class_name, store,
               download_from_s3(base_parser, kwargs, store),
               download_from_s3(parser_file_name, kwargs, store))

\* ------------------------------------------------- parsers/base_parser.py

\* Calling the member `name` of an instance.  `behaviour` is what the work
\* behind the member does: it returns "True", "False" or "None", or it is
\* "raise".  process() of a builtin delegates to its one operation, and the
\* builtin operations catch every Exception and return False.
Invoke(parser, name, behaviour) ==
    LET c == parser.cls
        called == IF name = "process" /\ c.delegate # ""
                  THEN <<[Ev("invoke") EXCEPT !.name = "process"],
                         [Ev("invoke") EXCEPT !.name = c.delegate]>>
                  ELSE <<[Ev("invoke") EXCEPT !.name = name]>>
    IN  IF behaviour = "raise" /\ ~c.catches
        THEN [val |-> "None", exc |-> "RuntimeError", events |-> called]
        ELSE [val |-> IF behaviour = "raise" THEN "False" ELSE behaviour,
              exc |-> "None", events |-> called]

get_available_operations(parser) == parser.cls.ops

\* A run_operation that skips the check against
\* get_available_operations() and calls whatever member has the name.
RunAnyMember(parser, operation_name, behaviour) ==
    IF operation_name \in parser.cls.members
    THEN Invoke(parser, operation_name, behaviour)
    ELSE [val |-> "None", exc |-> "NotImplementedError", events |-> <<>>]

\* BaseParser.run_operation
run_operation(parser, operation_name, behaviour) ==
    IF operation_name \notin get_available_operations(parser)
    THEN [val |-> "None", exc |-> "ValueError", events |-> <<>>]
    ELSE IF operation_name \in parser.cls.members
    THEN Invoke(parser, operation_name, behaviour)
    ELSE [val |-> "None", exc |-> "NotImplementedError", events |-> <<>>]

\* ---------------------------------------------------------- job.runner.py

\* obj[key] for a storage reference, passed through s3_to_local.
Resolve(obj, key) ==
    IF key \notin obj.keys THEN [exc |-> "KeyError", val |-> <<>>]
    ELSE s3_to_local(IF key = "origin" THEN obj.origin ELSE obj.destiny)

\* A local lookup that lets the ImportError or AttributeError of a missing
\* module or class leave create_parser.
LocalParserRaises(source_file, output_directory, parser_class_name, module_name, options, r, found) ==
    [ret |-> IF found = {} \/ (CHOOSE c \in found : TRUE).abstract THEN PyNone
             ELSE Instance(CHOOSE c \in found : TRUE, source_file,
                           output_directory, options),
     exc |-> IF module_name \notin DOMAIN LocalRegistry THEN "ImportError"
             ELSE IF found = {} THEN "AttributeError" ELSE "None",
     events |-> r.events \o
         <<[Ev("local_lookup") EXCEPT
              !.mod = module_name, !.cls = parser_class_name]>>,
     logs |-> r.logs]

\* Lines 96-114 of create_parser: the lookup in the package "parsers" and
\* the instantiation of the class found there.  r is what
\* load_parser_from_s3 returned.
LocalParser(source_file, output_directory, parser_class_name, module_name, options, r, found) ==
    IF found = {} \/ (CHOOSE c \in found : TRUE).abstract
    THEN [ret |-> PyNone, exc |-> "None",
          events |-> r.events \o
              <<[Ev("local_lookup") EXCEPT
                   !.mod = module_name, !.cls = parser_class_name]>>,
          logs |-> r.logs \o
              <<LogEntry("Local parser loaded", FALSE),
                LogEntry(IF module_name \notin DOMAIN LocalRegistry
                         THEN "Error: Could not import parser module"
                         ELSE IF found = {}
                         THEN "Error: Class not found in module"
                         ELSE "Error creating parser", TRUE)>>]
    ELSE [ret |-> Instance(CHOOSE c \in found : TRUE, source_file,
                           output_directory, options),
          exc |-> "None",
          events |-> r.events \o
              <<[Ev("local_lookup") EXCEPT
                   !.mod = module_name, !.cls = parser_class_name],
                [Ev("instantiate_local") EXCEPT
                   !.cls = parser_class_name, !.source = source_file,
                   !.out = output_directory, !.opts = options]>>,
          logs |-> r.logs \o <<LogEntry("Local parser loaded", FALSE)>>]

\* Lines 115-116 of create_parser: the remote class is instantiated, with
\* the two paths only; an exception of its constructor leaves create_parser.
RemoteParser(source_file, output_directory, parser_class_name, r) ==
    [ret |-> IF r.cls.ctorRaises THEN PyNone
             ELSE Instance(r.cls, source_file, output_directory, {}),
     exc |-> IF r.cls.ctorRaises THEN "RuntimeError" ELSE "None",
     events |-> r.events \o
         <<[Ev("instantiate_remote") EXCEPT
              !.cls = parser_class_name, !.source = source_file,
              !.out = output_directory]>>,
     logs |-> r.logs]

\* A resolver that gives up when the remote store does: no local lookup.
ResolveClassNoFallback(source_file, output_directory, parser_class_name, module_name, options, r) ==
    IF ~r.found
    THEN [ret |-> PyNone, exc |-> "None", events |-> r.events,
          logs |-> r.logs \o
              <<LogEntry("Error: Could not import parser module", TRUE)>>]
    ELSE RemoteParser(source_file, output_directory, parser_class_name, r)

\* A resolver that prefers the package "parsers" and asks the remote store's
\* answer only for classes the package lacks.
ResolveClassLocalFirst(source_file, output_directory, parser_class_name, module_name, options, r) ==
    IF ~r.found \/ ( /\ module_name \in DOMAIN LocalRegistry
                     /\ \E c \in LocalRegistry[module_name] :
                           c.name = parser_class_name )
    THEN LocalParser(source_file, output_directory, parser_class_name,
                     module_name, options, r,
                     IF module_name \in DOMAIN LocalRegistry
                     THEN {c \in LocalRegistry[module_name] :
                             c.name = parser_class_name}
                     ELSE {})
    ELSE RemoteParser(source_file, output_directory, parser_class_name, r)

\* Lines 93-116 of create_parser, once the references are resolved.
ResolveClass(source_file, output_directory, parser_class_name, module_name, options, r) ==
    IF ~r.found
    THEN LocalParser(source_file, output_directory, parser_class_name,
                     module_name, options, r,
                     IF module_name \in DOMAIN LocalRegistry
                     THEN {c \in LocalRegistry[module_name] :
                             c.name = parser_class_name}
                     ELSE {})
    ELSE RemoteParser(source_file, output_directory, parser_class_name, r)

\* create_parser(obj, options); `remote` is the kind of the remote store.
\* ret is the returned value (PyNone, PyFalse or an instance); exc is the
\* exception that leaves create_parser, "None" when it returns.
create_parser(obj, options, remote) ==
    IF \/ Resolve(obj, "origin").exc # "None"
       \/ Resolve(obj, "destiny").exc # "None"
       \/ "classname" \notin obj.keys
    THEN [ret |-> PyFalse, exc |-> "None", events |-> <<>>,
          logs |-> <<LogEntry("Error: {e}", TRUE)>>]
    ELSE ResolveClass(Resolve(obj, "origin").val, Resolve(obj, "destiny").val,
                      obj.classname, camel_to_snake(obj.classname), options,
                      load_parser_from_s3(camel_to_snake(obj.classname),
                          obj.classname, options,
                          Store(remote, camel_to_snake(obj.classname))))

\* The result of execute_transformation's try block: the value returned
\* (ret), the exception raised (exc), the parser create_parser gave, what
\* happened (events, logs), the value run_operation returned ("" when it was
\* not called or raised) and the exception the except clause caught.
Outcome(value, exception, cp, evs) ==
    [ret |-> value, exc |-> exception, parser |-> cp.ret,
     events |-> cp.events \o evs, logs |-> cp.logs,
     returned |-> "", caught |-> "None"]

\* A dispatch through run_operation that takes the truth value of the
\* result (`if result`) for the outcome.
ViaRunOperationTruthy(cp, operation_name, result) ==
    [Outcome(result.val = "True", result.exc, cp,
             <<[Ev("dispatch_run_operation") EXCEPT !.name = operation_name]>>
             \o result.events)
     EXCEPT !.returned = IF result.exc = "None" THEN result.val ELSE ""]

\* Lines 58-60: dispatch through the parser's own run_operation.
ViaRunOperation(cp, operation_name, result) ==
    [Outcome(result.val # "False", result.exc, cp,
             <<[Ev("dispatch_run_operation") EXCEPT !.name = operation_name]>>
             \o result.events)
     EXCEPT !.returned = IF result.exc = "None" THEN result.val ELSE ""]

\* A member dispatch that takes the member's return value for the outcome,
\* as the dispatch through run_operation does.
ViaMemberChecksResult(cp, operation_name, options, behaviour) ==
    IF cp.ret.kind = "False" \/ operation_name \notin cp.ret.cls.members
    THEN Outcome(FALSE, "TypeError", cp,
                 <<[Ev("dispatch_member") EXCEPT
                      !.name = operation_name, !.opts = options]>>)
    ELSE Outcome(Invoke(cp.ret, operation_name, behaviour).val # "False",
                 Invoke(cp.ret, operation_name, behaviour).exc, cp,
                 <<[Ev("dispatch_member") EXCEPT
                      !.name = operation_name, !.opts = options]>>
                 \o Invoke(cp.ret, operation_name, behaviour).events)

\* Lines 62-65: the member named operation_name, called with the options
\* as keyword arguments.  The methods of a bool take no keyword arguments,
\* and a data attribute is not callable.
ViaMember(cp, operation_name, options, behaviour) ==
    IF cp.ret.kind = "False"
    THEN Outcome(operation_name \in BoolMethods /\ options = {},
                 IF operation_name \in BoolMethods /\ options = {}
                 THEN "None" ELSE "TypeError",
                 cp,
                 <<[Ev("dispatch_member") EXCEPT
                      !.name = operation_name, !.opts = options]>>)
    ELSE IF operation_name \notin cp.ret.cls.members
    THEN Outcome(FALSE, "TypeError", cp,
                 <<[Ev("dispatch_member") EXCEPT
                      !.name = operation_name, !.opts = options]>>)
    ELSE Outcome(TRUE, Invoke(cp.ret, operation_name, behaviour).exc, cp,
                 <<[Ev("dispatch_member") EXCEPT
                      !.name = operation_name, !.opts = options]>>
                 \o Invoke(cp.ret, operation_name, behaviour).events)

\* Lines 66-68: the default process().
ViaProcess(cp, behaviour) ==
    IF ~HasAttr(cp.ret, "process")
    THEN Outcome(FALSE, "AttributeError", cp, <<Ev("dispatch_process")>>)
    ELSE Outcome(TRUE, Invoke(cp.ret, "process", behaviour).exc, cp,
                 <<Ev("dispatch_process")>>
                 \o Invoke(cp.ret, "process", behaviour).events)

\* A dispatch that tries the member named operation_name before the
\* parser's own run_operation.
DispatchMemberFirst(cp, operation_name, options, behaviour) ==
    IF cp.exc # "None" THEN Outcome(FALSE, cp.exc, cp, <<>>)
    ELSE IF cp.ret = PyNone THEN Outcome(FALSE, "None", cp, <<>>)
    ELSE IF HasAttr(cp.ret, operation_name)
    THEN ViaMember(cp, operation_name, options, behaviour)
    ELSE IF HasAttr(cp.ret, "run_operation")
    THEN ViaRunOperation(cp, operation_name,
                         run_operation(cp.ret, operation_name, behaviour))
    ELSE ViaProcess(cp, behaviour)

\* Lines 55-68: what execute_transformation does with the value cp.ret of
\* create_parser (cp.exc: the exception create_parser raised instead).
Dispatch(cp, operation_name, options, behaviour) ==
    IF cp.exc # "None" THEN Outcome(FALSE, cp.exc, cp, <<>>)
    ELSE IF cp.ret = PyNone THEN Outcome(FALSE, "None", cp, <<>>)
    ELSE IF HasAttr(cp.ret, "run_operation")
    THEN ViaRunOperation(cp, operation_name,
                         run_operation(cp.ret, operation_name, behaviour))
    ELSE IF HasAttr(cp.ret, operation_name)
    THEN ViaMember(cp, operation_name, options, behaviour)
    ELSE ViaProcess(cp, behaviour)

\* An execute_transformation without its except clause.
CatchNothing(b) == b

\* The `except Exception` of execute_transformation (lines 70-72): the
\* exception is logged and False is returned.
Catch(b) ==
    IF b.exc # "None"
    THEN [b EXCEPT !.ret = FALSE, !.exc = "None", !.caught = b.exc,
                   !.logs = @ \o <<LogEntry("Error executing transformation",
                                            TRUE)>>]
    ELSE b

execute_transformation(obj, operation_name, options, remote, behaviour) ==
    Catch(Dispatch(create_parser(obj, options, remote), operation_name,
                   options, behaviour))

\* --------------------------------------------------- the job descriptions

Ref(type, val) == [type |-> type, val |-> val]
S3Origin  == Ref("str", <<"s3://", "a.xml">>)
S3Destiny == Ref("str", <<"s3://", "out/">>)
\* A JSON value that is no string (a number).
NotAString == Ref("int", <<>>)

ObjKeys == {"origin", "destiny", "classname", "parser"}
Scripts == {"scripts_bucket", "scripts_path"}

\* One entry of "transformations" (t: the JSON object, with the keys it has)
\* together with the world it runs in: what the remote store holds for its
\* class (remote) and what the work behind the invoked member does
\* (behaviour).
Scenario(tkeys, okeys, origin, destiny, classname, parser, kwargs, remote, behaviour) ==
    [t |-> [keys |-> tkeys,
            object |-> [keys |-> okeys, origin |-> origin, destiny |-> destiny,
                        classname |-> classname, parser |-> parser],
            kwargs |-> kwargs],
     remote |-> remote, behaviour |-> behaviour]

\* A well-formed entry: every key present, both references strings.
WellFormed(classname, parser, kwargs, remote, behaviour) ==
    Scenario({"object", "kwargs"}, ObjKeys, S3Origin, S3Destiny, classname,
             parser, kwargs, remote, behaviour)

\* Entries the loop of run_job cannot unpack: no "object", no "parser".
Unreadable ==
    { Scenario({"kwargs"}, ObjKeys, S3Origin, S3Destiny, XmlToCsvParser,
               "xml_to_csv", {}, "nocreds", "True"),
      Scenario({"object", "kwargs"}, ObjKeys \ {"parser"}, S3Origin, S3Destiny,
               XmlToCsvParser, "", {}, "nocreds", "True") }

\* An entry whose object lacks the keys `missing` of origin, destiny and
\* classname, or holds the given values for the two references.
BadRef(missing, origin, destiny, parser, kwargs) ==
    Scenario({"object", "kwargs"}, ObjKeys \ missing, origin, destiny,
             XmlToCsvParser, parser, kwargs, "nocreds", "True")

\* Entries whose origin, destiny or classname cannot be read.
BadReference ==
    { BadRef({}, NotAString, S3Destiny, "bit_length", kw) : kw \in {{}, Scripts} }
    \cup
    { BadRef({}, S3Origin, NotAString, p, {}) : p \in {"bit_length", "real"} }
    \cup
    { BadRef({"origin"}, S3Origin, S3Destiny, p, {}) :
        p \in {"xml_to_csv", "bit_length"} }
    \cup
    { BadRef({}, NotAString, S3Destiny, "xml_to_csv", {}),
      BadRef({"destiny"}, S3Origin, S3Destiny, "xml_to_csv", {}),
      BadRef({"classname"}, S3Origin, S3Destiny, "bit_length", {}) }

\* Remote resolution unavailable or failing: the options lack a scripts key,
\* or the store fails in one of the RemoteFailing ways.
LocalOnly ==
    { WellFormed(c, "xml_to_csv", {}, "nocreds", "True") :
        c \in {XmlToCsvParser, NoSuchParser, BaseParser} }
    \cup
    { WellFormed(XmlToCsvParser, "xml_to_csv", Scripts, f, "True") :
        f \in RemoteFailing }
    \cup
    { WellFormed(NoSuchParser, "xml_to_csv", Scripts, f, "True") :
        f \in {"notfound", "noclass"} }
    \cup
    { WellFormed(XmlToCSVParser, "xml_to_csv", {}, "nocreds", "True") }
    \cup
    { WellFormed(XmlToCsvParser, "xml_to_csv", {}, "nocreds", b) :
        b \in {"False", "raise"} }
    \cup
    { WellFormed(XmlToCsvParser, p, {}, "nocreds", "True") :
        p \in {"process", "XmlToCsvParser"} }
    \cup
    { WellFormed(XmlToCsvParser, "xml_to_csv", {"scripts_bucket"}, "nocreds",
                 "True"),
      WellFormed(ZipFileParser, "unzip", {"password"}, "nocreds", "True"),
      Scenario({"object"}, ObjKeys, S3Origin, S3Destiny, XmlToCsvParser,
               "xml_to_csv", {}, "nocreds", "True") }

\* The remote store holds the class.
RemoteResolved ==
    { WellFormed(XmlToCsvParser, "xml_to_csv", Scripts, k, b) :
        k \in {"contract", "legacy_member"},
        b \in {"True", "False", "None", "raise"} }
    \cup
    { WellFormed(XmlToCsvParser, p, Scripts, k, "True") :
        p \in {"process", "XmlToCsvParser"},
        k \in {"contract", "legacy_member"} }
    \cup
    { WellFormed(XmlToCsvParser, "XmlToCsvParser", Scripts, "legacy_member",
                 "raise"),
      WellFormed(XmlToCsvParser, "xml_to_csv", Scripts, "legacy_plain", "True"),
      WellFormed(XmlToCsvParser, "process", Scripts, "legacy_plain", "raise") }
    \cup
    { WellFormed(NoSuchParser, "xml_to_csv", Scripts, k, "True") :
        k \in {"contract", "ctor_raises"} }

Scenarios == Unreadable \cup BadReference \cup LocalOnly \cup RemoteResolved

\* All sequences over S of length at most n.
SeqUpTo(S, n) == UNION { [1..k -> S] : k \in 0..n }

\* ------------------------------------------------------------------ state

VARIABLES
    file,          \* job_definition.json: "missing", "malformed" or "ok"
    job,           \* json.load(f): [keys, transformations]
    world,         \* per entry: [remote, behaviour]
    pc,            \* position in run_job
    idx,           \* entries the for loop has taken
    obj,           \* run_job's local: transformation["object"]
    options,       \* run_job's local
    operation_name,\* run_job's local
    success,       \* run_job's local
    executed,      \* what each call of execute_transformation did
    outcomes,      \* the reported outcome of each entry, in order
    logs,          \* every log call so far
    abort,         \* the exception that ended the try block of run_job
    conv           \* one use of camel_to_snake: [phase, name, snake, again, module]

vars == <<file, job, world, pc, idx, obj, options, operation_name, success,
          executed, outcomes, logs, abort, conv>>

NoObj == [keys |-> {}, origin |-> NotAString, destiny |-> NotAString,
          classname |-> <<>>, parser |-> ""]
NoAbort == [exc |-> "None", at |-> "", handler |-> ""]
NoConversion == [phase |-> "", name |-> <<>>, snake |-> <<>>, again |-> <<>>,
                 module |-> <<>>]

Init ==
    /\ file \in {"missing", "malformed", "ok"}
    /\ \E sc \in SeqUpTo(Scenarios, MaxJob), ks \in {{}, {"transformations"}} :
          /\ file # "ok" => sc = <<>> /\ ks = {}
          /\ ks = {} => sc = <<>>
          /\ job = [keys |-> ks,
                    transformations |-> [k \in DOMAIN sc |-> sc[k].t]]
          /\ world = [k \in DOMAIN sc |->
                        [remote |-> sc[k].remote, behaviour |-> sc[k].behaviour]]
    /\ pc = "start"
    /\ idx = 0
    /\ obj = NoObj
    /\ options = {}
    /\ operation_name = ""
    /\ success = FALSE
    /\ executed = <<>>
    /\ outcomes = <<>>
    /\ logs = <<>>
    /\ abort = NoAbort
    /\ conv = NoConversion

\* The except clauses of run_job (lines 33-38): the clause that catches an
\* exception raised in the try block, "" when none does.
ExceptionClasses ==
    {"FileNotFoundError", "JSONDecodeError", "KeyError", "TypeError",
     "AttributeError", "ValueError", "NotImplementedError", "ImportError",
     "RuntimeError", "Exception"}

\* A run_job without the last-resort `except Exception`.
HandlerNoCatchAll(exc) ==
    IF exc = "FileNotFoundError" THEN "FileNotFoundError"
    ELSE IF exc = "JSONDecodeError" THEN "JSONDecodeError"
    ELSE ""

Handler(exc) ==
    IF exc = "FileNotFoundError" THEN "FileNotFoundError"
    ELSE IF exc = "JSONDecodeError" THEN "JSONDecodeError"
    ELSE IF exc \in ExceptionClasses THEN "Exception"
    ELSE ""

HandlerLog(handler) ==
    IF handler = "FileNotFoundError"
    THEN <<LogEntry("Error: job_definition.json file not found", TRUE)>>
    ELSE IF handler = "JSONDecodeError"
    THEN <<LogEntry("Error: Invalid JSON in job_definition.json", TRUE)>>
    ELSE IF handler = "Exception"
    THEN <<LogEntry("Unexpected error during job execution", TRUE)>>
    ELSE <<>>

\* An exception raised at `at` inside the try block of run_job.
Raise(exc, at, before) ==
    /\ abort' = [exc |-> exc, at |-> at, handler |-> Handler(exc)]
    /\ logs' = logs \o before \o HandlerLog(Handler(exc))
    /\ pc' = "done"

\* When each step of run_job can be taken.
CanOpen == pc = "start"
CanNextTransformation ==
    /\ pc = "loop"
    /\ "transformations" \in job.keys
    /\ idx < Len(job.transformations)
CanExecute == pc = "exec" /\ idx \in DOMAIN world
CanReport == pc = "report"
CanFinish ==
    /\ pc = "loop"
    /\ "transformations" \in job.keys => idx = Len(job.transformations)

\* A run_job that logs the start before it opens the file.
OpenLogsFirst ==
    /\ CanOpen
    /\ IF file = "missing"
       THEN Raise("FileNotFoundError", "open",
                  <<LogEntry("Starting job execution...", FALSE)>>)
       ELSE IF file = "malformed"
       THEN Raise("JSONDecodeError", "json.load",
                  <<LogEntry("Starting job execution...", FALSE)>>)
       ELSE /\ logs' = logs \o <<LogEntry("Starting job execution...", FALSE)>>
            /\ pc' = "loop"
            /\ abort' = abort
    /\ UNCHANGED <<file, job, world, idx, obj, options, operation_name, success,
                   executed, outcomes, conv>>

\* Lines 12-14: open and parse the definition, log the start.
Open ==
    /\ CanOpen
    /\ IF file = "missing" THEN Raise("FileNotFoundError", "open", <<>>)
       ELSE IF file = "malformed" THEN Raise("JSONDecodeError", "json.load", <<>>)
       ELSE /\ logs' = logs \o <<LogEntry("Starting job execution...", FALSE)>>
            /\ pc' = "loop"
            /\ abort' = abort
    /\ UNCHANGED <<file, job, world, idx, obj, options, operation_name, success,
                   executed, outcomes, conv>>

\* A loop that walks the list from its end.
NextEntryReversed(taken) ==
    job.transformations[Len(job.transformations) - taken]

\* Line 15: the entry the for loop takes after it has taken `taken` entries.
NextEntry(taken) == job.transformations[taken + 1]

\* Lines 15-19: the for loop takes the next entry and unpacks it.
NextTransformation ==
    /\ CanNextTransformation
    /\ \E transformation \in {NextEntry(idx)} :
           /\ idx' = idx + 1
           /\ IF "object" \notin transformation.keys
              THEN /\ Raise("KeyError", "object", <<>>)
                   /\ UNCHANGED <<obj, options, operation_name>>
              ELSE IF "parser" \notin transformation.object.keys
              THEN /\ Raise("KeyError", "parser", <<>>)
                   /\ obj' = transformation.object
                   /\ options' = IF "kwargs" \in transformation.keys
                                 THEN transformation.kwargs ELSE {}
                   /\ UNCHANGED operation_name
              ELSE /\ obj' = transformation.object
                   /\ options' = IF "kwargs" \in transformation.keys
                                 THEN transformation.kwargs ELSE {}
                   /\ operation_name' = transformation.object.parser
                   /\ logs' = logs \o <<LogEntry("Processing transformation",
                                                 FALSE)>>
                   /\ pc' = "exec"
                   /\ abort' = abort
    /\ UNCHANGED <<file, job, world, success, executed, outcomes, conv>>

\* Lines 20-24: the call of execute_transformation.
Execute ==
    /\ CanExecute
    /\ \E r \in {execute_transformation(obj, operation_name, options,
                                        world[idx].remote, world[idx].behaviour)} :
           /\ executed' = Append(executed, r)
           /\ IF r.exc # "None"
              THEN /\ Raise(r.exc, "execute_transformation", r.logs)
                   /\ UNCHANGED success
              ELSE /\ success' = r.ret
                   /\ logs' = logs \o r.logs
                   /\ pc' = "report"
                   /\ abort' = abort
    /\ UNCHANGED <<file, job, world, idx, obj, options, operation_name, outcomes,
                   conv>>

\* Lines 26-29: the outcome of the entry is reported.
Report ==
    /\ CanReport
    /\ outcomes' = Append(outcomes, success)
    /\ logs' = logs \o
         <<IF success THEN LogEntry("Transformation completed successfully", FALSE)
           ELSE LogEntry("Transformation failed", TRUE)>>
    /\ pc' = "loop"
    /\ UNCHANGED <<file, job, world, idx, obj, options, operation_name, success,
                   executed, abort, conv>>

\* Line 15 (job["transformations"]) when the key is absent, and line 31 when
\* the loop is exhausted.
Finish ==
    /\ CanFinish
    /\ IF "transformations" \notin job.keys
       THEN Raise("KeyError", "transformations", <<>>)
       ELSE /\ logs' = logs \o <<LogEntry("Job execution completed", FALSE)>>
            /\ pc' = "done"
            /\ abort' = abort
    /\ UNCHANGED <<file, job, world, idx, obj, options, operation_name, success,
                   executed, outcomes, conv>>

Next ==
    \/ Open
    \/ NextTransformation
    \/ Execute
    \/ Report
    \/ Finish

Spec == Init /\ [][Next]_vars

\* ------------------------------------------------- camel_to_snake on its own

\* Characters of the names given to camel_to_snake: two capitals, two
\* lowercase letters, a digit and the separator.
Alphabet == {"A", "B", "a", "b", "1", "_"}

\* The names converted: every name over Alphabet up to MaxLen characters and
\* the class names of the job descriptions.
Names ==
    SeqUpTo(Alphabet, MaxLen)
    \cup {XmlToCsvParser, ZipFileParser, BaseParser, NoSuchParser,
          XmlToCSVParser, HTMLParserV2}

\* The module create_parser looks up in the package "parsers" for a class
\* name when the remote store gives nothing (lines 93-100).
LookedUp(class_name) ==
    (SelectSeq(create_parser([NoObj EXCEPT !.keys = ObjKeys,
                                           !.origin = S3Origin,
                                           !.destiny = S3Destiny,
                                           !.classname = class_name],
                             {}, "nocreds").events,
               LAMBDA e : e.ev = "local_lookup"))[1].mod

ConvInit ==
    /\ conv \in {[NoConversion EXCEPT !.phase = "given", !.name = n] :
                    n \in Names}
    /\ file = "ok"
    /\ job = [keys |-> {}, transformations |-> <<>>]
    /\ world = <<>>
    /\ pc = "done"
    /\ idx = 0
    /\ obj = NoObj
    /\ options = {}
    /\ operation_name = ""
    /\ success = FALSE
    /\ executed = <<>>
    /\ outcomes = <<>>
    /\ logs = <<>>
    /\ abort = NoAbort

runVars == <<file, job, world, pc, idx, obj, options, operation_name, success,
             executed, outcomes, logs, abort>>

\* camel_to_snake(name)
Convert ==
    /\ conv.phase = "given"
    /\ conv' = [conv EXCEPT !.phase = "converted",
                            !.snake = camel_to_snake(conv.name)]
    /\ UNCHANGED runVars

\* camel_to_snake applied to its own result.
ConvertAgain ==
    /\ conv.phase = "converted"
    /\ conv' = [conv EXCEPT !.phase = "reconverted",
                            !.again = camel_to_snake(conv.snake)]
    /\ UNCHANGED runVars

\* create_parser for a class of that name: the module it looks up.
Lookup ==
    /\ conv.phase = "reconverted"
    /\ conv' = [conv EXCEPT !.phase = "looked",
                            !.module = LookedUp(conv.name)]
    /\ UNCHANGED runVars

ConvNext ==
    \/ Convert
    \/ ConvertAgain
    \/ Lookup

ConvSpec == ConvInit /\ [][ConvNext]_vars

\* ----------------------------------------------- vocabulary of the claims

\* Number of entries of the job description (0 when there is no list).
N == Len(job.transformations)
Entry(k) == job.transformations[k]
\* The options run_job passes for entry k.
OptionsOf(k) == IF "kwargs" \in Entry(k).keys THEN Entry(k).kwargs ELSE {}

\* Events of one call of execute_transformation, by kind.
EventsOf(r, kinds) == SelectSeq(r.events, LAMBDA e : e.ev \in kinds)
Happened(r, kind) == \E n \in DOMAIN r.events : r.events[n].ev = kind
DispatchKinds == {"dispatch_run_operation", "dispatch_member", "dispatch_process"}
ResolutionKinds == {"download", "download_failed", "remote_found",
                    "remote_failed", "local_lookup"}
InstantiationKinds == {"instantiate_local", "instantiate_remote"}

\* Entry k has the keys of the documented job-description interface
\* (object: origin, destiny, classname), both references being strings.
Documented(k) ==
    /\ "object" \in Entry(k).keys
    /\ {"origin", "destiny", "classname"} \subseteq Entry(k).object.keys
    /\ Entry(k).object.origin.type = "str"
    /\ Entry(k).object.destiny.type = "str"

\* Remote resolution is unavailable for entry k: the options do not name
\* bucket and path, or the store fails.
RemoteUnavailable(k) ==
    \/ ~(Scripts \subseteq OptionsOf(k))
    \/ world[k].remote \in RemoteFailing

\* The class of entry k is in the local registry.
LocallyResolvable(k) ==
    \E m \in DOMAIN LocalRegistry :
        \E c \in LocalRegistry[m] :
            /\ c.name = Entry(k).object.classname
            /\ m = camel_to_snake(c.name)

\* Entry k names a class nothing defines and remote resolution is
\* unavailable.
Unresolvable(k) ==
    /\ Documented(k)
    /\ RemoteUnavailable(k)
    /\ ~LocallyResolvable(k)

\* Resolving origin or destiny of entry k fails: key absent, or no string.
ReferenceFails(k) ==
    /\ "object" \in Entry(k).keys
    /\ \/ ~({"origin", "destiny"} \subseteq Entry(k).object.keys)
       \/ Entry(k).object.origin.type # "str"
       \/ Entry(k).object.destiny.type # "str"

\* --------------------------------------------------------------------- C1

\* C1: for every job description of N entries, each with the documented
\* keys, in which an entry k is unresolvable, the finished run has exactly N
\* outcomes and outcome k is failure (the run never stops early because of
\* a single transformation).
C1_NOutcomesWithUnresolvableEntry ==
    ( /\ pc = "done"
      /\ file = "ok"
      /\ "transformations" \in job.keys
      /\ \A k \in 1..N : Documented(k)
      /\ \E k \in 1..N : Unresolvable(k) )
    => /\ Len(outcomes) = N
       /\ \A k \in 1..N : Unresolvable(k) => outcomes[k] = FALSE

\* --------------------------------------------------------------------- C2

\* C2: execute_transformation never propagates an exception: every call
\* returns a boolean, run_job is never ended by an exception out of it, and
\* whenever something was raised while the variant was constructed or run
\* the value returned is the failure outcome.
C2_ExecuteNeverRaises ==
    /\ abort.at # "execute_transformation"
    /\ \A k \in DOMAIN executed :
          /\ executed[k].exc = "None"
          /\ executed[k].ret \in BOOLEAN
          /\ executed[k].caught # "None" => executed[k].ret = FALSE

\* Reached: the constructor of a remotely resolved class raised (line 116),
\* the call returned False and the run went on to report it.
C2_Witness ==
    \E k \in DOMAIN executed :
        /\ executed[k].caught = "RuntimeError"
        /\ Happened(executed[k], "instantiate_remote")
        /\ executed[k].parser = PyNone
        /\ Len(outcomes) >= k
        /\ outcomes[k] = FALSE

\* --------------------------------------------------------------------- C3

\* C3: a job description whose single entry is {object: {origin, destiny,
\* classname: "XmlToCsvParser"}, kwargs: {}}, exactly the documented keys,
\* run with no remote resolution, ends with exactly one outcome, success.
C3_DocumentedEntrySucceeds ==
    ( /\ pc = "done"
      /\ file = "ok"
      /\ "transformations" \in job.keys
      /\ N = 1
      /\ Entry(1).keys = {"object", "kwargs"}
      /\ Entry(1).object.keys = {"origin", "destiny", "classname"}
      /\ Entry(1).object.origin = S3Origin
      /\ Entry(1).object.destiny = S3Destiny
      /\ Entry(1).object.classname = XmlToCsvParser
      /\ Entry(1).kwargs = {}
      /\ world[1].behaviour = "True" )
    => outcomes = <<TRUE>>

\* --------------------------------------------------------------------- C4

\* The module of the package "parsers" a class name stands for.
ModuleFor(class_name) ==
    IF class_name \in {XmlToCsvParser, XmlToCSVParser} THEN xml_to_csv_parser
    ELSE IF class_name = ZipFileParser THEN zip_file_parser
    ELSE IF class_name = BaseParser THEN base_parser
    ELSE IF class_name = NoSuchParser
    THEN <<"n","o","_","s","u","c","h","_","p","a","r","s","e","r">>
    ELSE <<>>

\* The position of the first event of the given kind, 0 when there is none.
FirstOf(r, kind) ==
    IF Happened(r, kind)
    THEN CHOOSE n \in DOMAIN r.events :
            /\ r.events[n].ev = kind
            /\ \A m \in 1..(n - 1) : r.events[m].ev # kind
    ELSE 0

\* C4: whenever remote resolution fails for the class of an entry, the local
\* registry is then looked up for the same class (the converted module name
\* and the original class name), and create_parser returns "not found" only
\* after that lookup.
C4_RemoteFailureThenLocalLookup ==
    \A k \in DOMAIN executed :
        LET r == executed[k]
            f == FirstOf(r, "remote_failed")
            l == FirstOf(r, "local_lookup")
        IN  /\ Happened(r, "remote_failed") =>
                /\ l > f
                /\ r.events[l].cls = Entry(k).object.classname
                /\ r.events[l].cls = r.events[f].cls
                /\ r.events[l].mod = r.events[f].mod
                /\ r.events[l].mod = ModuleFor(r.events[l].cls)
            /\ (r.parser = PyNone /\ r.caught = "None") => l > 0

\* Reached: the store answered "no credentials" for a class the local
\* registry does not have either; the lookup happened, then "not found".
C4_Witness ==
    \E k \in DOMAIN executed :
        /\ Scripts \subseteq OptionsOf(k)
        /\ world[k].remote = "nocreds" \/ world[k].remote = "notfound"
        /\ Happened(executed[k], "download_failed")
        /\ Happened(executed[k], "remote_failed")
        /\ Happened(executed[k], "local_lookup")
        /\ executed[k].parser = PyNone

\* --------------------------------------------------------------------- C5

\* C5: for a parser instance that has run_operation, the only dispatch is
\* run_operation(operation_name): never the direct member, never the bare
\* process(), also when the instance has a member of that name and also
\* when run_operation raises.
C5_RunOperationOnly ==
    \A k \in DOMAIN executed :
        HasAttr(executed[k].parser, "run_operation") =>
            EventsOf(executed[k], DispatchKinds) =
                <<[Ev("dispatch_run_operation") EXCEPT
                     !.name = Entry(k).object.parser]>>

\* Reached: run_operation raised for an operation name the instance does
\* have a member for ("process"), and nothing else was dispatched.
C5_Witness ==
    \E k \in DOMAIN executed :
        /\ HasAttr(executed[k].parser, "run_operation")
        /\ HasAttr(executed[k].parser, Entry(k).object.parser)
        /\ executed[k].caught = "ValueError"
        /\ Happened(executed[k], "dispatch_run_operation")

\* --------------------------------------------------------------------- C6

\* How a finished run ended: it completed with one outcome per entry, or
\* the definition file was missing, or it was malformed, or an exception
\* was raised in run_job outside execute_transformation.
EndedAsAllowed ==
    \/ /\ abort = NoAbort
       /\ "transformations" \in job.keys
       /\ Len(outcomes) = N
       /\ logs[Len(logs)] = LogEntry("Job execution completed", FALSE)
    \/ /\ file = "missing"
       /\ abort.handler = "FileNotFoundError"
    \/ /\ file = "malformed"
       /\ abort.handler = "JSONDecodeError"
    \/ /\ abort.handler = "Exception"
       /\ abort.at \in {"transformations", "object", "parser"}

\* How far run_job has got: every step moves it forward, and no position is
\* further than the end.
Progress ==
    IF pc = "start" THEN 0
    ELSE IF pc = "loop" THEN 3 * idx + 1
    ELSE IF pc = "exec" THEN 3 * idx - 1
    ELSE IF pc = "report" THEN 3 * idx
    ELSE 3 * N + 2

\* C6: run_job always terminates (it is never stuck before its end and
\* every step brings it nearer to it), no exception escapes it (every
\* exception raised in its try block is caught by one of its except
\* clauses), and it ends without an outcome for every entry only when the
\* file is missing, the definition is malformed, or an error was raised
\* outside execute_transformation.
C6_CleanExit ==
    /\ [](pc # "done" => \/ CanOpen \/ CanNextTransformation \/ CanExecute
                         \/ CanReport \/ CanFinish)
    /\ [][Progress' > Progress]_vars
    /\ [](abort.exc # "None" => abort.handler # "")
    /\ [](pc = "done" => EndedAsAllowed)

\* Reached: the first entry got its (failure) outcome, the second lacks the
\* key "parser"; the KeyError was caught by the catch-all and the run ended.
C6_Witness ==
    /\ pc = "done"
    /\ abort.at = "parser"
    /\ abort.handler = "Exception"
    /\ outcomes = <<FALSE>>
    /\ N = 2

\* --------------------------------------------------------------------- C7

\* C7: when the definition file is missing, run_job logs exactly one entry,
\* an error, and attempts no transformation: nothing is resolved,
\* instantiated or reported, and neither the start nor the completion
\* message is logged.
C7_MissingFile ==
    file = "missing" =>
        /\ executed = <<>>
        /\ outcomes = <<>>
        /\ idx = 0
        /\ pc = "start" => logs = <<>>
        /\ pc # "start" =>
              /\ pc = "done"
              /\ Len(logs) = 1
              /\ logs[1].error
        /\ \A n \in DOMAIN logs :
              logs[n].msg \notin {"Starting job execution...",
                                  "Processing transformation",
                                  "Job execution completed"}

\* Reached: the run on a missing file has ended.
C7_Witness ==
    /\ file = "missing"
    /\ pc = "done"
    /\ logs = <<LogEntry("Error: job_definition.json file not found", TRUE)>>

\* --------------------------------------------------------------------- C8

\* The remote store resolves the class of entry k.
RemoteResolvable(k) ==
    /\ Scripts \subseteq OptionsOf(k)
    /\ world[k].remote \in RemoteFound

\* C8: when the class is resolvable both remotely and locally, the remote
\* class is the one instantiated and the local registry is not consulted;
\* the local registry is consulted only after remote resolution returned
\* nothing.
C8_RemoteWins ==
    \A k \in DOMAIN executed :
        LET r == executed[k]
        IN  /\ ( /\ Documented(k)
                 /\ RemoteResolvable(k)
                 /\ LocallyResolvable(k) )
               => /\ Happened(r, "instantiate_remote")
                  /\ ~Happened(r, "local_lookup")
                  /\ ~Happened(r, "instantiate_local")
                  /\ r.parser.kind = "instance" =>
                        r.parser.cls = RemoteClass(world[k].remote,
                                                   Entry(k).object.classname)
            /\ Happened(r, "local_lookup") =>
                  /\ ~Happened(r, "remote_found")
                  /\ FirstOf(r, "remote_failed") > 0
                  /\ FirstOf(r, "remote_failed") < FirstOf(r, "local_lookup")

\* Reached: XmlToCsvParser is in the store and in the package "parsers";
\* the instance is of the remote class.
C8_Witness ==
    \E k \in DOMAIN executed :
        /\ Documented(k)
        /\ RemoteResolvable(k)
        /\ LocallyResolvable(k)
        /\ executed[k].parser.kind = "instance"
        /\ executed[k].parser.cls # XmlToCsvParserClass
        /\ executed[k].parser.cls.name = XmlToCsvParser

\* --------------------------------------------------------------------- C9

\* What the member behind an operation returns, when it returns.
MemberResult(k) ==
    IF world[k].behaviour = "raise" THEN "False" ELSE world[k].behaviour

\* C9: for a parser with the contract's run_operation, an operation name
\* that is not in get_available_operations() fails with ValueError without
\* any member being invoked, the entry's outcome is failure and the run goes
\* on to the next entry; a name that is in get_available_operations()
\* invokes exactly the member of that name and its result is returned.
C9_RunOperationContract ==
    \A k \in DOMAIN executed :
        LET r == executed[k]
            name == Entry(k).object.parser
        IN  ( /\ r.parser.kind = "instance"
              /\ "run_operation" \in r.parser.cls.members )
            => /\ name \notin r.parser.cls.ops =>
                    /\ EventsOf(r, {"invoke"}) = <<>>
                    /\ r.caught = "ValueError"
                    /\ r.ret = FALSE
                    /\ Len(outcomes) >= k => outcomes[k] = FALSE
                    /\ (pc = "done" /\ idx = k) => (abort = NoAbort /\ k = N)
               /\ name \in r.parser.cls.ops =>
                    /\ EventsOf(r, {"invoke"}) =
                          <<[Ev("invoke") EXCEPT !.name = name]>>
                    /\ r.caught = "None" => r.returned = MemberResult(k)
                    /\ r.caught # "None" =>
                          /\ world[k].behaviour = "raise"
                          /\ ~r.parser.cls.catches

\* Reached: the first entry asked XmlToCsvParser for "process", which it
\* has as a member but does not declare; it failed, and the second entry
\* ran its declared operation and succeeded.
C9_Witness ==
    /\ Len(executed) = 2
    /\ executed[1].parser.kind = "instance"
    /\ "run_operation" \in executed[1].parser.cls.members
    /\ Entry(1).object.parser = "process"
    /\ executed[1].caught = "ValueError"
    /\ executed[2].parser.kind = "instance"
    /\ Entry(2).object.parser \in executed[2].parser.cls.ops
    /\ executed[2].returned = "True"
    /\ outcomes = <<FALSE, TRUE>>

\* -------------------------------------------------------------------- C10

\* C10: when resolving origin or destiny of an entry fails, nothing is
\* resolved, instantiated or invoked for it and its outcome is failure,
\* whatever the operation name.
C10_BadReferenceFails ==
    \A k \in DOMAIN executed :
        ReferenceFails(k) =>
            /\ EventsOf(executed[k], ResolutionKinds \cup InstantiationKinds
                                     \cup {"invoke"}) = <<>>
            /\ executed[k].ret = FALSE
            /\ Len(outcomes) >= k => outcomes[k] = FALSE

\* -------------------------------------------------------------------- C11

\* Neither the remote store nor the package "parsers" yields the class of
\* entry k: the module is missing, or it exists and lacks the class.
ModuleMissing(k) ==
    ModuleFor(Entry(k).object.classname) \notin DOMAIN LocalRegistry
ClassAbsent(k) ==
    /\ ~ModuleMissing(k)
    /\ \A c \in LocalRegistry[ModuleFor(Entry(k).object.classname)] :
           c.name # Entry(k).object.classname
NowhereResolved(k) ==
    /\ Documented(k)
    /\ ~RemoteResolvable(k)
    /\ ModuleMissing(k) \/ ClassAbsent(k)

\* C11: when neither remote nor local resolution yields the named class,
\* create_parser returns None without raising anything, and
\* execute_transformation returns False having dispatched and invoked
\* nothing and having looked the class up locally exactly once (and asked
\* the remote store at most once).
C11_NotFoundIsFailure ==
    \A k \in DOMAIN executed :
        NowhereResolved(k) =>
            /\ executed[k].parser = PyNone
            /\ executed[k].caught = "None"
            /\ executed[k].exc = "None"
            /\ executed[k].ret = FALSE
            /\ EventsOf(executed[k], DispatchKinds \cup {"invoke"}) = <<>>
            /\ EventsOf(executed[k], InstantiationKinds) = <<>>
            /\ Len(EventsOf(executed[k], {"local_lookup"})) = 1
            /\ Len(EventsOf(executed[k], {"remote_failed", "remote_found"})) <= 1

\* Reached: one entry whose module is missing and one whose module exists
\* without the class were both executed and reported as failures.
C11_Witness ==
    /\ \E k \in DOMAIN executed :
          /\ NowhereResolved(k) /\ ModuleMissing(k)
          /\ Len(outcomes) >= k /\ outcomes[k] = FALSE
    /\ \E k \in DOMAIN executed :
          /\ NowhereResolved(k) /\ ClassAbsent(k)
          /\ Len(outcomes) >= k /\ outcomes[k] = FALSE

\* -------------------------------------------------------------------- C12

\* The local path of a reference of entry k.
LocalPath(ref) == s3_to_local(ref).val

\* C12: every parser instance the executor creates for entry k, its class
\* resolved remotely or locally, is constructed with the resolved local
\* source path, the resolved local output directory and the options of
\* entry k.
C12_ConstructedWithOptions ==
    \A k \in DOMAIN executed :
        /\ \A n \in DOMAIN executed[k].events :
              executed[k].events[n].ev \in InstantiationKinds =>
                  /\ executed[k].events[n].source =
                         LocalPath(Entry(k).object.origin)
                  /\ executed[k].events[n].out =
                         LocalPath(Entry(k).object.destiny)
                  /\ executed[k].events[n].opts = OptionsOf(k)
        /\ executed[k].parser.kind = "instance" =>
              /\ executed[k].parser.source_file =
                     LocalPath(Entry(k).object.origin)
              /\ executed[k].parser.output_directory =
                     LocalPath(Entry(k).object.destiny)
              /\ executed[k].parser.options = OptionsOf(k)

\* -------------------------------------------------------------------- C13

\* Names made of letters and digits only, and names made of lowercase
\* letters, digits and separators only.
Alphanumeric(s) ==
    \A k \in DOMAIN s : IsUpper(s[k]) \/ IsLower(s[k]) \/ IsDigit(s[k])
LowerSeparated(s) ==
    \A k \in DOMAIN s : IsLower(s[k]) \/ IsDigit(s[k]) \/ s[k] = "_"

\* C13: camel_to_snake is idempotent, camel_to_snake(camel_to_snake(n)) =
\* camel_to_snake(n) for every name n, and a name that is already
\* lowercase and underscore-separated is returned unchanged.
C13_Idempotent ==
    /\ conv.phase \in {"reconverted", "looked"} => conv.again = conv.snake
    /\ conv.phase \in {"converted", "reconverted", "looked"} =>
          /\ LowerSeparated(conv.snake)
          /\ LowerSeparated(conv.name) => conv.snake = conv.name

\* Reached: a class name in capitalized-compound form was converted, got
\* separators, and the conversion of the result gave the result back.
C13_Witness ==
    /\ conv.phase = "reconverted"
    /\ conv.name = XmlToCsvParser
    /\ conv.snake = xml_to_csv_parser
    /\ conv.again = xml_to_csv_parser

\* -------------------------------------------------------------------- C14

\* A separator belongs between s[i - 1] and s[i]: s[i] is a capital that
\* follows a lowercase letter or a digit, or it is the last capital of a run
\* of capitals and a lowercase letter follows it.
SeparatorBefore(s, i) ==
    /\ i > 1
    /\ IsUpper(s[i])
    /\ \/ IsLower(s[i - 1])
       \/ IsDigit(s[i - 1])
       \/ /\ IsUpper(s[i - 1])
          /\ i < Len(s)
          /\ IsLower(s[i + 1])

\* The name with exactly those separators, in lowercase.
RECURSIVE Separated(_, _)
Separated(s, i) ==
    IF i > Len(s) THEN <<>>
    ELSE (IF SeparatorBefore(s, i) THEN <<"_">> ELSE <<>>)
         \o <<ToLower(s[i])>> \o Separated(s, i + 1)

\* C14: for every alphanumeric class name camel_to_snake gives the name in
\* lowercase with exactly one separator before each capital that follows a
\* lowercase letter or a digit and before the last capital of a run of
\* capitals that a lowercase letter follows, and no other separator;
\* HTMLParserV2 gives html_parser_v2; and the result is the module
\* create_parser looks up locally.
C14_SeparatorsAndLowercase ==
    /\ ( conv.phase \in {"converted", "reconverted", "looked"}
         /\ Alphanumeric(conv.name) )
       => conv.snake = Separated(conv.name, 1)
    /\ ( conv.phase \in {"converted", "reconverted", "looked"}
         /\ conv.name = HTMLParserV2 )
       => conv.snake = html_parser_v2
    /\ conv.phase = "looked" => conv.module = conv.snake

\* Reached: HTMLParserV2 was converted and looked up as html_parser_v2.
C14_Witness ==
    /\ conv.phase = "looked"
    /\ conv.name = HTMLParserV2
    /\ conv.snake = html_parser_v2
    /\ conv.module = html_parser_v2

\* -------------------------------------------------------------------- C15

\* C15: entries are executed one at a time in list order.  A call of
\* execute_transformation (the resolution, instantiation and operation of
\* an entry) is the call for entry idx, made with that entry's object,
\* options and operation name, when exactly the idx - 1 entries before it
\* have been executed and all their outcomes reported; an outcome is
\* reported only for the entry executed last; the loop never goes back, so
\* no entry is executed twice.
C15_InListOrder ==
    [][ /\ executed' # executed =>
              /\ Len(executed') = Len(executed) + 1
              /\ Len(executed') = idx
              /\ Len(outcomes) = idx - 1
              /\ idx \in 1..N
              /\ obj = Entry(idx).object
              /\ options = OptionsOf(idx)
              /\ operation_name = Entry(idx).object.parser
        /\ outcomes' # outcomes =>
              /\ Len(outcomes') = Len(outcomes) + 1
              /\ Len(outcomes') = Len(executed)
              /\ Len(outcomes') = idx
              /\ outcomes'[idx] = executed[idx].ret
        /\ idx' \in {idx, idx + 1}
      ]_vars

\* Reached: two different entries were executed and reported, the first
\* before the second.
C15_Witness ==
    /\ pc = "done"
    /\ N = 2
    /\ Entry(1) # Entry(2)
    /\ Len(executed) = 2
    /\ Len(outcomes) = 2
    /\ outcomes[1] # outcomes[2]

\* -------------------------------------------------------------------- C16

\* The names of the members invoked during one call, in order.
InvokedNames(r) ==
    [n \in DOMAIN EventsOf(r, {"invoke"}) |-> EventsOf(r, {"invoke"})[n].name]

\* The parser of call k is an instance whose class has no run_operation.
WithoutRunOperation(k) ==
    /\ executed[k].parser.kind = "instance"
    /\ ~HasAttr(executed[k].parser, "run_operation")

\* C16: for a parser instance without run_operation, if it has a member
\* named operation_name then exactly that member is invoked, once, with the
\* options of the entry as named arguments, and process() is not invoked
\* (unless it is the member named); otherwise process() is invoked exactly
\* once; either way the outcome is success exactly when nothing was raised,
\* whatever the member returned.
C16_MemberOrProcess ==
    \A k \in DOMAIN executed :
        WithoutRunOperation(k) =>
            /\ IF HasAttr(executed[k].parser, Entry(k).object.parser)
               THEN /\ EventsOf(executed[k], DispatchKinds) =
                          <<[Ev("dispatch_member") EXCEPT
                               !.name = Entry(k).object.parser,
                               !.opts = OptionsOf(k)]>>
                    /\ InvokedNames(executed[k]) = <<Entry(k).object.parser>>
               ELSE /\ EventsOf(executed[k], DispatchKinds) =
                          <<Ev("dispatch_process")>>
                    /\ InvokedNames(executed[k]) = <<"process">>
            /\ executed[k].ret = (executed[k].caught = "None")
            /\ executed[k].ret = (world[k].behaviour # "raise")

\* Reached: a member named by the entry returned False and the entry was
\* reported successful; the process() of an instance without such a member
\* ran and raised, and the entry was reported failed.
C16_Witness ==
    /\ \E k \in DOMAIN executed :
          /\ WithoutRunOperation(k)
          /\ HasAttr(executed[k].parser, Entry(k).object.parser)
          /\ Entry(k).object.parser # "process"
          /\ world[k].behaviour = "False"
          /\ Len(outcomes) >= k /\ outcomes[k] = TRUE
    /\ \E k \in DOMAIN executed :
          /\ WithoutRunOperation(k)
          /\ ~HasAttr(executed[k].parser, Entry(k).object.parser)
          /\ world[k].behaviour = "raise"
          /\ Len(outcomes) >= k /\ outcomes[k] = FALSE

\* -------------------------------------------------------------------- C17

\* The parser of call k is an instance with run_operation.
WithRunOperation(k) ==
    /\ executed[k].parser.kind = "instance"
    /\ HasAttr(executed[k].parser, "run_operation")

\* What run_operation(operation_name) does for entry k according to the
\* contract and the work behind the operation: "raise", or the value it
\* returns.
RunOperationDoes(k) ==
    IF Entry(k).object.parser \notin executed[k].parser.cls.ops THEN "raise"
    ELSE IF world[k].behaviour = "raise" /\ executed[k].parser.cls.catches
    THEN "False"
    ELSE world[k].behaviour

\* C17: for a parser instance with run_operation the outcome is failure
\* exactly when run_operation(operation_name) returns False or raises; any
\* other return value, None included, is success.
C17_FailureIffFalseOrRaise ==
    \A k \in DOMAIN executed :
        WithRunOperation(k) =>
            /\ EventsOf(executed[k], DispatchKinds) =
                   <<[Ev("dispatch_run_operation") EXCEPT
                        !.name = Entry(k).object.parser]>>
            /\ executed[k].ret = FALSE <=>
                   \/ executed[k].returned = "False"
                   \/ executed[k].caught # "None"
            /\ executed[k].ret = FALSE <=>
                   RunOperationDoes(k) \in {"False", "raise"}
            /\ RunOperationDoes(k) = "raise" <=> executed[k].caught # "None"
            /\ RunOperationDoes(k) # "raise" =>
                   executed[k].returned = RunOperationDoes(k)

\* Reached: one run_operation returned None and its entry was reported
\* successful, another returned False and its entry was reported failed.
C17_Witness ==
    /\ \E k \in DOMAIN executed :
          /\ WithRunOperation(k)
          /\ executed[k].returned = "None"
          /\ Len(outcomes) >= k /\ outcomes[k] = TRUE
    /\ \E k \in DOMAIN executed :
          /\ WithRunOperation(k)
          /\ executed[k].returned = "False"
          /\ Len(outcomes) >= k /\ outcomes[k] = FALSE

\* -------------------------------------------------------------------- C18

\* C18: an entry is reported successful only if create_parser produced a
\* parser instance, of the class resolved for the entry's classname, and a
\* member of that instance was invoked without anything being raised; no
\* entry is reported successful when create_parser produced no instance.
C18_SuccessNeedsParser ==
    /\ \A k \in DOMAIN outcomes : outcomes[k] = executed[k].ret
    /\ \A k \in DOMAIN executed :
          executed[k].ret = TRUE =>
              /\ executed[k].parser.kind = "instance"
              /\ executed[k].parser.cls.name = Entry(k).object.classname
              /\ EventsOf(executed[k], InstantiationKinds) # <<>>
              /\ EventsOf(executed[k], {"invoke"}) # <<>>
              /\ executed[k].caught = "None"

====
